---- MODULE Spec2Model ----
(***************************************************************************)
(* Model of the gotel request-tracing middleware (tracingMiddleware.       *)
(* ServeHTTP), its helpers (debugRequestBody, writeResponseJSON), the      *)
(* header telemetry utilities of package otelutils and the basic response  *)
(* writer wrapper.                                                         *)
(*                                                                         *)
(* Strings that the code inspects character by character (header names)    *)
(* are sequences of one-character strings; byte buffers are sequences of   *)
(* one-character strings; opaque strings are TLA+ strings.                 *)
(***************************************************************************)
EXTENDS Integers, Sequences, FiniteSets, Bags, TLC

VARIABLES
    mode,               \* "serve": a request goes through ServeHTTP; "writer": the wrapper is driven directly
    tmOptions,          \* tracingMiddlewareOptions built by NewTracingMiddleware
    loggerLevel,        \* minimum level of Exporters.Logger (slog levels)
    wrapperWriteErr,    \* a custom wrapper is installed whose Write reports a transport error
    r,                  \* the *http.Request: Path, Header, Body stream
    pc,                 \* position of ServeHTTP
    exit,               \* how ServeHTTP left: "running", "returned", "panicked"
    events,             \* telemetry calls made so far, in order
    metricAttrs,        \* the metricAttrs slice, as a set of <<key, value>>
    activeRequestsAttrSet, \* attribute set captured at line 170
    isDebug,            \* logger.Enabled(ctx, LevelDebug), cached at line 156
    requestBodySize,    \* local of ServeHTTP
    bodyStr,            \* string returned by debugRequestBody (empty before it runs)
    capture,            \* outcome of debug capture: "none", "ok", "readfail_continue", "readfail_422"
    recovering,         \* the value recover() returned in the deferred guard ("none" outside it)
    ww,                 \* the response writer wrapper
    w,                  \* the underlying http.ResponseWriter as the client sees it
    handler,            \* "notcalled", "running", "returned", "panicked"
    handlerOps,         \* number of calls the handler has made
    handlerSaw,         \* whether the handler read r.Body, and the bytes it got
    origBody,           \* the request body bytes as sent by the client
    firstLock,          \* code of the first status-locking call made on the wrapper (0: none yet)
    lastHeaderCode,     \* code passed to the most recent WriteHeader call on the wrapper (0: none yet)
    calls,              \* the calls made on a wrapper that is driven directly, in order, with what Write returned
    call,               \* "utils" mode: the otelutils function applied and its arguments
    ret,                \* "utils" mode: what that application produced
    invocations,        \* "conc" mode: the ServeHTTP invocations in flight on one middleware instance, each with its own locals
    ActiveRequestsMetric \* "conc" mode: the Add calls received by the shared active-requests instrument, as a bag of [attrs, delta]

vars == <<mode, tmOptions, loggerLevel, wrapperWriteErr, r, pc, exit, events,
          metricAttrs, activeRequestsAttrSet, isDebug, requestBodySize, bodyStr,
          capture, recovering, ww, w, handler, handlerOps, handlerSaw, origBody,
          firstLock, lastHeaderCode, calls, call, ret, invocations,
          ActiveRequestsMetric>>

----------------------------------------------------------------------------
(* Bounds *)

MaxHandlerOps == 2
MaxWriterOps == 4
MaxBody == 1
MaxNameLen == 4
MaxValueLen == 12
MaxHostPortLen == 4
NumInvocations == 2

----------------------------------------------------------------------------
(* Program constants *)

LevelDebug == 0 - 4
LevelInfo == 0
LevelWarn == 4
LevelError == 8

StatusOK == 200
StatusBadRequest == 400
StatusUnprocessableEntity == 422
StatusInternalServerError == 500
StatusSwitchingProtocols == 101

contentTypeJSON == "application/json"

ContentTypeHeader == <<"C","o","n","t","e","n","t","-","T","y","p","e">>

MaskString == "[REDACTED]"

DefaultDebugPaths == <<"/metrics", "/health", "/healthz">>

----------------------------------------------------------------------------
(* Characters and header names *)

UpperChars == <<"A","B","C","D","E","F","G","H","I","J","K","L","M",
                "N","O","P","Q","R","S","T","U","V","W","X","Y","Z">>
LowerChars == <<"a","b","c","d","e","f","g","h","i","j","k","l","m",
                "n","o","p","q","r","s","t","u","v","w","x","y","z">>

ToLowerChar(c) ==
    IF \E i \in 1..26 : UpperChars[i] = c
    THEN LowerChars[CHOOSE i \in 1..26 : UpperChars[i] = c]
    ELSE c

ToUpperChar(c) ==
    IF \E i \in 1..26 : LowerChars[i] = c
    THEN UpperChars[CHOOSE i \in 1..26 : LowerChars[i] = c]
    ELSE c

\* strings.ToLower on a name
ToLower(name) == [i \in 1..Len(name) |-> ToLowerChar(name[i])]

\* textproto.CanonicalMIMEHeaderKey, applied by http.Header.Get and Set
CanonicalKey(name) ==
    [i \in 1..Len(name) |->
        IF i = 1 \/ name[i-1] = "-" THEN ToUpperChar(name[i]) ELSE ToLowerChar(name[i])]

\* slices.Contains
SeqContains(s, x) == \E i \in 1..Len(s) : s[i] = x

\* sensitiveKeywords: first letter -> remainder of the keyword
sensitiveKeywords ==
    [c \in {"a","k","s","t","p"} |->
        CASE c = "a" -> <<"u","t","h">>
          [] c = "k" -> <<"e","y">>
          [] c = "s" -> <<"e","c","r","e","t">>
          [] c = "t" -> <<"o","k","e","n">>
          [] c = "p" -> <<"a","s","s","w","o","r","d">>]

\* the inner loop "for ; j < keywordLength; j++": i and j are the code's
\* 0-based indices; lowerBytes[i+j+1] is read without a bound check.
RECURSIVE KeywordLoop(_, _, _, _)
KeywordLoop(lowerBytes, i, keyword, j) ==
    IF j >= Len(keyword) THEN "match"
    ELSE IF i + j + 1 >= Len(lowerBytes) THEN "panic"
    ELSE IF lowerBytes[i + j + 2] # keyword[j + 1] THEN "break"
    ELSE KeywordLoop(lowerBytes, i, keyword, j + 1)

\* an outer loop that stops one position early
RECURSIVE ScanLoopShort(_, _)
ScanLoopShort(lowerBytes, i) ==
    IF i >= Len(lowerBytes) - 3 THEN "false"
    ELSE IF lowerBytes[i + 1] \notin DOMAIN sensitiveKeywords
         THEN ScanLoopShort(lowerBytes, i + 1)
    ELSE LET res == KeywordLoop(lowerBytes, i, sensitiveKeywords[lowerBytes[i + 1]], 0)
         IN  IF res = "match" THEN "true"
             ELSE IF res = "panic" THEN "panic"
             ELSE ScanLoopShort(lowerBytes, i + 1)

\* the outer loop "for i := range len(lowerBytes) - 2"
RECURSIVE ScanLoop(_, _)
ScanLoop(lowerBytes, i) ==
    IF i >= Len(lowerBytes) - 2 THEN "false"
    ELSE IF lowerBytes[i + 1] \notin DOMAIN sensitiveKeywords
         THEN ScanLoop(lowerBytes, i + 1)
    ELSE LET res == KeywordLoop(lowerBytes, i, sensitiveKeywords[lowerBytes[i + 1]], 0)
         IN  IF res = "match" THEN "true"
             ELSE IF res = "panic" THEN "panic"
             ELSE ScanLoop(lowerBytes, i + 1)

\* IsSensitiveHeader: "true", "false", or "panic" (index out of range)
IsSensitiveHeader(name) ==
    IF Len(name) < 3 THEN "false" ELSE ScanLoop(ToLower(name), 0)

\* sensitiveHeaderRegex: the alternation auth|key|secret|token|password
sensitiveHeaderRegex ==
    {<<"a","u","t","h">>, <<"k","e","y">>, <<"s","e","c","r","e","t">>, <<"t","o","k","e","n">>, <<"p","a","s","s","w","o","r","d">>}

\* regexp MatchString with an unanchored alternation: some keyword occurs
MatchString(re, str) ==
    \E kw \in re : \E i \in 1..Len(str) :
        i + Len(kw) - 1 <= Len(str) /\ SubSeq(str, i, i + Len(kw) - 1) = kw

\* IsSensitiveHeader of the regular-expression version
IsSensitiveHeaderRegex(name) == MatchString(sensitiveHeaderRegex, ToLower(name))

\* strings.Repeat("*", n)
Repeat(n) == [i \in 1..n |-> "*"]

DigitChars == <<"0","1","2","3","4","5","6","7","8","9">>

\* fmt.Sprintf("%d", n) for n >= 0
RECURSIVE Sprintd(_)
Sprintd(n) ==
    IF n < 10 THEN <<DigitChars[n + 1]>>
    ELSE Append(Sprintd(n \div 10), DigitChars[(n % 10) + 1])

\* a masking whose middle case also takes the inputs of length 12
MaskStringByLengthInclusive(input) ==
    LET inputLength == Len(input)
    IN  IF inputLength <= 6 THEN Repeat(inputLength)
        ELSE IF inputLength <= 12
             THEN SubSeq(input, 1, 1) \o Repeat(inputLength - 1)
        ELSE SubSeq(input, 1, 2) \o Repeat(8)
             \o <<"(">> \o Sprintd(inputLength) \o <<")">>

\* func MaskString(input string) string, the length-revealing masking
MaskStringByLength(input) ==
    LET inputLength == Len(input)
    IN  IF inputLength <= 6 THEN Repeat(inputLength)
        ELSE IF inputLength < 12
             THEN SubSeq(input, 1, 1) \o Repeat(inputLength - 1)
        ELSE SubSeq(input, 1, 2) \o Repeat(8)
             \o <<"(">> \o Sprintd(inputLength) \o <<")">>

\* an exclusion set that forgets the bare b3 header
excludedSpanHeaderAttributesWithoutB3 ==
    {<<"b","a","g","g","a","g","e">>, <<"t","r","a","c","e","p","a","r","e","n","t">>, <<"t","r","a","c","e","r","e","s","p","o","n","s","e">>, <<"t","r","a","c","e","s","t","a","t","e">>,
     <<"x","-","b","3","-","s","a","m","p","l","e","d">>, <<"x","-","b","3","-","s","p","a","n","i","d">>, <<"x","-","b","3","-","t","r","a","c","e","i","d">>,
     <<"x","-","b","3","-","p","a","r","e","n","t","s","p","a","n","i","d">>, <<"x","-","b","3","-","f","l","a","g","s">>}

excludedSpanHeaderAttributes ==
    {<<"b","a","g","g","a","g","e">>, <<"t","r","a","c","e","p","a","r","e","n","t">>, <<"t","r","a","c","e","r","e","s","p","o","n","s","e">>, <<"t","r","a","c","e","s","t","a","t","e">>,
     <<"x","-","b","3","-","s","a","m","p","l","e","d">>, <<"x","-","b","3","-","s","p","a","n","i","d">>, <<"x","-","b","3","-","t","r","a","c","e","i","d">>,
     <<"x","-","b","3","-","p","a","r","e","n","t","s","p","a","n","i","d">>, <<"x","-","b","3","-","f","l","a","g","s">>, <<"b","3">>}

\* fmt.Sprintf("%s.%s", prefix, lowerKey)
AttrKey(prefix, lowerKey) == prefix \o <<".">> \o lowerKey

\* SetSpanHeaderAttributes: the span.SetAttributes calls it makes, one per
\* selected header
SetSpanHeaderAttributes(prefix, headers, allowedHeaders) ==
    LET allowedHeadersLength == Len(allowedHeaders)
        selected == {key \in DOMAIN headers :
                        LET lowerKey == ToLower(key)
                        IN  \/ (allowedHeadersLength = 0
                                /\ lowerKey \notin excludedSpanHeaderAttributes)
                            \/ (allowedHeadersLength > 0
                                /\ SeqContains(allowedHeaders, lowerKey))}
    IN  {[key |-> AttrKey(prefix, ToLower(key)), values |-> headers[key]] : key \in selected}

\* http.Header.Get: first value under the canonical key, "" when absent
HeaderGet(hdr, name) ==
    LET k == CanonicalKey(name)
    IN  IF k \in DOMAIN hdr /\ Len(hdr[k]) > 0 THEN hdr[k][1] ELSE ""

\* a projection that copies the values of sensitive headers as they are
NewTelemetryHeadersUnmasked(httpHeaders, allowedHeaders) ==
    IF Len(allowedHeaders) > 0
    THEN LET used == {i \in 1..Len(allowedHeaders) :
                         HeaderGet(httpHeaders, allowedHeaders[i]) # ""}
             keys == {CanonicalKey(ToLower(allowedHeaders[i])) : i \in used}
             last(k) == CHOOSE i \in used :
                          /\ CanonicalKey(ToLower(allowedHeaders[i])) = k
                          /\ \A j \in used : CanonicalKey(ToLower(allowedHeaders[j])) = k => j <= i
         IN  [panic |-> \E i \in used : IsSensitiveHeader(allowedHeaders[i]) = "panic",
              hdr |-> [k \in keys |-> <<HeaderGet(httpHeaders, allowedHeaders[last(k)])>>]]
    ELSE LET keys == {k \in DOMAIN httpHeaders : Len(httpHeaders[k]) > 0}
         IN  [panic |-> \E k \in keys : IsSensitiveHeader(k) = "panic",
              hdr |-> [k \in keys |-> httpHeaders[k]]]

\* NewTelemetryHeaders: [panic |-> BOOLEAN, hdr |-> projected header map]
NewTelemetryHeaders(httpHeaders, allowedHeaders) ==
    IF Len(allowedHeaders) > 0
    THEN LET used == {i \in 1..Len(allowedHeaders) :
                         HeaderGet(httpHeaders, allowedHeaders[i]) # ""}
             keys == {CanonicalKey(ToLower(allowedHeaders[i])) : i \in used}
             last(k) == CHOOSE i \in used :
                          /\ CanonicalKey(ToLower(allowedHeaders[i])) = k
                          /\ \A j \in used : CanonicalKey(ToLower(allowedHeaders[j])) = k => j <= i
         IN  [panic |-> \E i \in used : IsSensitiveHeader(allowedHeaders[i]) = "panic",
              hdr |-> [k \in keys |->
                         IF IsSensitiveHeader(allowedHeaders[last(k)]) = "true"
                         THEN <<MaskString>>
                         ELSE <<HeaderGet(httpHeaders, allowedHeaders[last(k)])>>]]
    ELSE LET keys == {k \in DOMAIN httpHeaders : Len(httpHeaders[k]) > 0}
         IN  [panic |-> \E k \in keys : IsSensitiveHeader(k) = "panic",
              hdr |-> [k \in keys |->
                         IF IsSensitiveHeader(k) = "true"
                         THEN <<MaskString>>
                         ELSE httpHeaders[k]]]

\* strings.LastIndex(s, c) and IndexByteString(s, c) for one character,
\* 1-based, 0 when c does not occur
LastIndex(str, c) ==
    IF \E i \in 1..Len(str) : str[i] = c
    THEN CHOOSE i \in 1..Len(str) : str[i] = c /\ \A j \in (i + 1)..Len(str) : str[j] # c
    ELSE 0

IndexByte(str, c) ==
    IF \E i \in 1..Len(str) : str[i] = c
    THEN CHOOSE i \in 1..Len(str) : str[i] = c /\ \A j \in 1..(i - 1) : str[j] # c
    ELSE 0

\* the result triple of a host/port split
HostPortResult(host, port, err) == [host |-> host, port |-> port, err |-> err]

\* net.SplitHostPort: host and port text, or ("", "", err)
NetSplitHostPort(hostport) ==
    LET n == Len(hostport)
        i == LastIndex(hostport, ":")
        fail(msg) == [host |-> <<>>, port |-> <<>>, err |-> msg]
    IN  IF i = 0 THEN fail("missing port in address")
        ELSE IF hostport[1] = "["
        THEN LET end == IndexByte(hostport, "]")
             IN  IF end = 0 THEN fail("missing ']' in address")
                 ELSE IF end = n THEN fail("missing port in address")
                 ELSE IF end + 1 # i
                      THEN (IF hostport[end + 1] = ":"
                            THEN fail("too many colons in address")
                            ELSE fail("missing port in address"))
                 ELSE IF IndexByte(SubSeq(hostport, 2, n), "[") # 0
                      THEN fail("unexpected '[' in address")
                 ELSE IF IndexByte(SubSeq(hostport, end + 1, n), "]") # 0
                      THEN fail("unexpected ']' in address")
                 ELSE [host |-> SubSeq(hostport, 2, end - 1),
                       port |-> SubSeq(hostport, i + 1, n), err |-> "nil"]
        ELSE LET host == SubSeq(hostport, 1, i - 1)
             IN  IF IndexByte(host, ":") # 0 THEN fail("too many colons in address")
                 ELSE IF IndexByte(hostport, "[") # 0 THEN fail("unexpected '[' in address")
                 ELSE IF IndexByte(hostport, "]") # 0 THEN fail("unexpected ']' in address")
                 ELSE [host |-> host, port |-> SubSeq(hostport, i + 1, n), err |-> "nil"]

IsDigit(c) == \E d \in 1..10 : DigitChars[d] = c

RECURSIVE DigitsValue(_)
DigitsValue(str) ==
    IF str = <<>> THEN 0
    ELSE 10 * DigitsValue(SubSeq(str, 1, Len(str) - 1))
         + ((CHOOSE d \in 1..10 : DigitChars[d] = str[Len(str)]) - 1)

\* strconv.Atoi on texts short enough not to overflow an int
Atoi(str) ==
    LET signed == Len(str) > 0 /\ str[1] \in {"+", "-"}
        digits == IF signed THEN Tail(str) ELSE str
    IN  IF digits = <<>> \/ \E i \in 1..Len(digits) : ~IsDigit(digits[i])
        THEN [n |-> 0, err |-> "invalid syntax"]
        ELSE [n |-> IF signed /\ str[1] = "-" THEN 0 - DigitsValue(digits)
                    ELSE DigitsValue(digits),
              err |-> "nil"]

\* a default-port table that knows http only
DefaultPortHTTPOnly(urlScheme) ==
    CASE urlScheme = "http" -> 80
      [] OTHER -> 0 - 1

\* lines 859-866: the port implied by the URL scheme
DefaultPort(urlScheme) ==
    CASE urlScheme = "http" -> 80
      [] urlScheme = "https" -> 443
      [] OTHER -> 0 - 1

\* SplitHostPort(hostport, urlScheme)
SplitHostPort(hostport, urlScheme) ==
    LET port == DefaultPort(urlScheme)
        n == Len(hostport)
        bracketed == n > 0 /\ hostport[1] = "["
        addrEnd == LastIndex(hostport, "]")
        split == NetSplitHostPort(hostport)
        p == Atoi(split.port)
    IN  IF bracketed /\ addrEnd = 0
        THEN HostPortResult(<<>>, port, "invalid host port")
        ELSE IF bracketed /\ LastIndex(SubSeq(hostport, addrEnd, n), ":") = 0
        THEN HostPortResult(SubSeq(hostport, 2, addrEnd - 1), port, "nil")
        ELSE IF ~bracketed /\ LastIndex(hostport, ":") = 0
        THEN HostPortResult(hostport, port, "nil")
        ELSE IF split.err # "nil" THEN HostPortResult(split.host, port, split.err)
        ELSE IF p.err # "nil" THEN HostPortResult(<<>>, port, p.err)
        ELSE HostPortResult(split.host, p.n, "nil")

OTELLogsExporterNone == "none"
OTELLogsExporterOTLP == "otlp"

\* OTLPConfig.GetLogsExporter
GetLogsExporter(oc) ==
    IF oc.LogsExporter = "" THEN OTELLogsExporterNone ELSE OTELLogsExporterOTLP

\* parseOTELMetricsExporterType
parseOTELMetricsExporterType(input) ==
    CASE input \in {"none", ""} -> [type |-> "none", err |-> "nil"]
      [] input = "otlp" -> [type |-> "otlp", err |-> "nil"]
      [] input = "prometheus" -> [type |-> "prometheus", err |-> "nil"]
      [] OTHER -> [type |-> "", err |-> "invalid metrics exporter type"]

\* setupOTelMetricsProvider, up to the exporter switch: whether the default
\* process and Go collectors were unregistered, and the error of the parse.
\* DisableGoMetrics is a *bool: "nil", "true" or "false".
setupOTelMetricsProvider(config) ==
    LET parsed == parseOTELMetricsExporterType(config.MetricsExporter)
    IN  IF parsed.err # "nil"
        THEN [unregistered |-> FALSE, err |-> parsed.err]
        ELSE [unregistered |-> (config.DisableGoMetrics # "nil"
                                /\ ~(config.DisableGoMetrics = "true")),
              err |-> "nil"]

XRequestIdHeader == <<"x","-","r","e","q","u","e","s","t","-","i","d">>

\* a request-id lookup that prefers the trace ID to the header
getRequestIDTraceFirst(req, newUUID) ==
    IF req.spanContext.hasTraceID THEN req.spanContext.traceID
    ELSE IF HeaderGet(req.Header, XRequestIdHeader) # ""
         THEN HeaderGet(req.Header, XRequestIdHeader)
    ELSE newUUID

\* getRequestID: newUUID is what uuid.NewString() would hand out
getRequestID(req, newUUID) ==
    LET requestID == HeaderGet(req.Header, XRequestIdHeader)
    IN  IF requestID # "" THEN requestID
        ELSE IF req.spanContext.hasTraceID THEN req.spanContext.traceID
        ELSE newUUID

\* IsContentTypeDebuggable: prefix test, tabulated over the content types used
IsContentTypeDebuggable(contentType) ==
    contentType \in {"application/json", "text/plain", "application/xml", "multipart/form-data"}

\* urlPath := strings.ToLower(r.URL.Path), tabulated over the paths used
LowerPath(path) ==
    CASE path = "/HEALTHZ" -> "/healthz"
      [] path = "/Admin" -> "/admin"
      [] OTHER -> path

\* !slices.Contains(tm.Options.DebugPaths, urlPath), negated
IsDebugPath(path) == SeqContains(tmOptions.DebugPaths, LowerPath(path))

----------------------------------------------------------------------------
(* The underlying http.ResponseWriter, as the client observes it *)

NewTransport ==
    [sent |-> FALSE, status |-> 0, sentCT |-> "", hdr |-> <<>>, body |-> <<>>]

\* a range test that forgets the exception made for 101
IsInformationalIncluding101(code) == code >= 100 /\ code <= 199

IsInformational(code) == code >= 100 /\ code <= 199 /\ code # StatusSwitchingProtocols

\* w.Header().Set(name, value)
TransportHeaderSet(u, name, value) ==
    [u EXCEPT !.hdr = [k \in (DOMAIN u.hdr) \cup {CanonicalKey(name)} |->
                          IF k = CanonicalKey(name) THEN <<value>> ELSE u.hdr[k]]]

\* w.WriteHeader(code): the status line goes out once; later calls are superfluous
TransportWriteHeader(u, code) ==
    IF u.sent \/ IsInformational(code) THEN u
    ELSE [u EXCEPT !.sent = TRUE, !.status = code,
                   !.sentCT = HeaderGet(u.hdr, ContentTypeHeader)]

\* w.Write(chunk): the first write sends 200 when no status went out before
TransportWrite(u, chunk) ==
    LET u1 == TransportWriteHeader(u, StatusOK)
    IN  [u1 EXCEPT !.body = Append(@, chunk)]

----------------------------------------------------------------------------
(* The basic response writer wrapper; a pair [ww, w] is the wrapper and the *)
(* transport it decorates.                                                  *)

NewBasicWriter ==
    [statusCode |-> StatusOK, headerWritten |-> FALSE, bytesWritten |-> 0,
     hasTee |-> FALSE, tee |-> <<>>, discard |-> FALSE]

ChunkLen(chunk) == IF chunk.kind = "bytes" THEN Len(chunk.data) ELSE 1

\* a WriteHeader that records every final code, not only the first
BasicWriteHeaderOverwrite(p, code) ==
    IF IsInformational(code)
    THEN [p EXCEPT !.w = TransportWriteHeader(p.w, code)]
    ELSE [ww |-> [p.ww EXCEPT !.headerWritten = TRUE, !.statusCode = code],
          w  |-> TransportWriteHeader(p.w, code)]

\* WriteHeader(code)
BasicWriteHeader(p, code) ==
    IF p.ww.headerWritten THEN p
    ELSE IF IsInformational(code)
         THEN [p EXCEPT !.w = TransportWriteHeader(p.w, code)]
    ELSE [ww |-> [p.ww EXCEPT !.headerWritten = TRUE, !.statusCode = code],
          w  |-> TransportWriteHeader(p.w, code)]

\* a Write that does not count the bytes it discards
BasicWriteUncountedDiscard(p, chunk) ==
    LET p1 == IF p.ww.headerWritten THEN p ELSE BasicWriteHeader(p, StatusOK)
    IN  [ww |-> [p1.ww EXCEPT !.bytesWritten = IF p1.ww.discard THEN @ ELSE @ + ChunkLen(chunk),
                              !.tee = IF p1.ww.hasTee THEN Append(@, chunk) ELSE @],
         w  |-> IF p1.ww.discard THEN p1.w ELSE TransportWrite(p1.w, chunk)]

\* a Write that feeds the tee target only with the bytes it forwards
BasicWriteTeeUnlessDiscard(p, chunk) ==
    LET p1 == IF p.ww.headerWritten THEN p ELSE BasicWriteHeader(p, StatusOK)
    IN  [ww |-> [p1.ww EXCEPT !.bytesWritten = @ + ChunkLen(chunk),
                              !.tee = IF p1.ww.hasTee /\ ~p1.ww.discard
                                      THEN Append(@, chunk) ELSE @],
         w  |-> IF p1.ww.discard THEN p1.w ELSE TransportWrite(p1.w, chunk)]

\* Write(chunk): returns (len, nil)
BasicWrite(p, chunk) ==
    LET p1 == IF p.ww.headerWritten THEN p ELSE BasicWriteHeader(p, StatusOK)
    IN  [ww |-> [p1.ww EXCEPT !.bytesWritten = @ + ChunkLen(chunk),
                              !.tee = IF p1.ww.hasTee THEN Append(@, chunk) ELSE @],
         w  |-> IF p1.ww.discard THEN p1.w ELSE TransportWrite(p1.w, chunk)]

\* Write of a wrapper built by ResponseWriterWrapperFunc that reports a failed
\* transport write: the status is committed, no byte is written or counted.
FailingWrite(p, chunk) ==
    IF p.ww.headerWritten THEN p ELSE BasicWriteHeader(p, StatusOK)

WrapperWrite(p, chunk) ==
    IF wrapperWriteErr THEN FailingWrite(p, chunk) ELSE BasicWrite(p, chunk)

\* what Write hands back to its caller: (n, err)
BasicWriteReturn(p, chunk) == [n |-> ChunkLen(chunk), err |-> "nil"]

Status(wrapper) == wrapper.statusCode
BytesWritten(wrapper) == wrapper.bytesWritten

BytesChunk(data) == [kind |-> "bytes", data |-> data]

----------------------------------------------------------------------------
(* JSON encoding of the values the middleware sends *)

\* json encoding of a panic value: a string encodes as itself, a runtime error
\* as an empty object, a func value is unsupported (Encode returns an error)
JSONEncodable(v) == v.kind # "func"
JSONCause(v) == IF v.kind = "string" THEN v.val ELSE "{}"

\* http.StatusText
StatusText(code) ==
    CASE code = 100 -> "Continue"
      [] code = 101 -> "Switching Protocols"
      [] code = 200 -> "OK"
      [] code = 404 -> "Not Found"
      [] code = 422 -> "Unprocessable Entity"
      [] code = 500 -> "Internal Server Error"
      [] OTHER -> ""

----------------------------------------------------------------------------
(* Inputs *)

Paths == {"/hello", "/healthz", "/HEALTHZ"}

LoggerLevels == {LevelDebug, LevelInfo, LevelWarn}

ResponseHeaderPrefix == <<"h","t","t","p",".","r","e","s","p","o","n","s","e",".","h","e","a","d","e","r">>
RequestHeaderPrefix == <<"h","t","t","p",".","r","e","q","u","e","s","t",".","h","e","a","d","e","r">>

AuthorizationHeader == <<"A","u","t","h","o","r","i","z","a","t","i","o","n">>
ApiKeyDashHeader == <<"A","p","i","-","K","e","y">>
EmptyHeader == <<"X","-","E","m","p","t","y">>
TraceparentHeader == <<"T","r","a","c","e","p","a","r","e","n","t">>
B3Header == <<"B","3">>
TokHeader == <<"T","o","k">>
ApiKeyHeader == <<"X","-","K","e","y">>

ContentTypes == {"application/json", "image/png"}

\* an http.Header with an optional Content-Type and the extra names given
MakeHeader(ct, extra) ==
    [k \in (IF ct = "" THEN {} ELSE {ContentTypeHeader}) \cup extra |->
        IF k = ContentTypeHeader THEN <<ct>> ELSE <<"v">>]

RequestHeaders ==
    {MakeHeader(ct, extra) : ct \in ContentTypes, extra \in {{}, {TokHeader}, {ApiKeyHeader}}}

Bytes == {"a", "b"}

RECURSIVE SeqsUpTo(_)
SeqsUpTo(n) ==
    IF n = 0 THEN {<<>>}
    ELSE SeqsUpTo(n - 1) \cup
         {Append(s, b) : s \in {t \in SeqsUpTo(n - 1) : Len(t) = n - 1}, b \in Bytes}

Bodies == SeqsUpTo(MaxBody)

\* r.Body: http.NoBody (present = FALSE) or a reader over data, read up to pos
NoBody == [present |-> FALSE, data |-> <<>>, pos |-> 0]
BodyReader(data) == [present |-> TRUE, data |-> data, pos |-> 0]

\* requests to the path an operator adds through WithDebugPaths
AdminRequests ==
    {[Path |-> p, Header |-> MakeHeader("application/json", {}), Body |-> NoBody] :
        p \in {"/Admin", "/admin"}}

\* requests that carry a trace-propagation header
TraceRequests ==
    {[Path |-> p, Header |-> MakeHeader(ct, {TraceparentHeader}), Body |-> NoBody] :
        p \in {"/hello", "/healthz"}, ct \in ContentTypes}

Requests ==
    {[Path |-> p, Header |-> h, Body |-> b] :
        p \in Paths, h \in RequestHeaders,
        b \in {NoBody} \cup {BodyReader(d) : d \in Bodies}}
    \cup TraceRequests \cup AdminRequests

HandlerCodes == {100, 200, 404}

ResponseHeaderNames == {TokHeader}

PanicValues == {[kind |-> "string", val |-> "test"], [kind |-> "func", val |-> "func"]}

\* the runtime error raised by an index out of range
RuntimeError == [kind |-> "runtime", val |-> "index out of range"]

NoValue == [kind |-> "none", val |-> ""]

----------------------------------------------------------------------------
(* Telemetry events *)

Ev(ev, code, text, attrs) == [ev |-> ev, code |-> code, text |-> text, attrs |-> attrs]

\* a span that is ended right where it is started, without defer
StartSpanEndNow(name) ==
    <<Ev("span_start", 0, name, {}), Ev("span_end", 0, "", {})>>

\* lines 141-148: Tracer.Start; span.End is deferred to the exit of ServeHTTP
StartSpan(name) == <<Ev("span_start", 0, name, {})>>

\* lines 211 and 352: SetSpanHeaderAttributes(span, prefix, headers), called
\* without an allow-list; the span records only when one was started
SpanHeaderAttributes(prefix, headers) ==
    IF \E i \in 1..Len(events) : events[i].ev = "span_start"
    THEN <<Ev("span_attrs", 0, "", SetSpanHeaderAttributes(prefix, headers, <<>>))>>
    ELSE <<>>

\* the deferred span.End() of line 148 runs when ServeHTTP leaves
DeferredSpanEnd(evs) ==
    IF \E i \in 1..Len(evs) : evs[i].ev = "span_start"
    THEN Append(evs, Ev("span_end", 0, "", {}))
    ELSE evs

\* a logger call: the line is emitted when the logger enables its level
LogCall(level, msg) ==
    IF level >= loggerLevel THEN <<Ev("log", level, msg, {})>> ELSE <<>>

\* a classification that treats only server errors as failures
IsErrorStatusServerOnly(statusCode) == statusCode >= StatusInternalServerError

\* line 272: statusCode >= http.StatusBadRequest
IsErrorStatus(statusCode) == statusCode >= StatusBadRequest

\* the finalization closure traceResponse(statusCode, description, err),
\* lines 233-292, as the ordered telemetry it emits
TraceResponse(statusCode, description, wrapper, reqSize) ==
    LET statusAttr == <<"http.response.status_code", ToString(statusCode)>>
        attrSet == metricAttrs \cup {statusAttr}
    IN  <<Ev("finalize", statusCode, description, {}),
          Ev("gauge", 0 - 1, "http.server.active_requests", activeRequestsAttrSet)>>
        \o (IF reqSize > 0
            THEN <<Ev("hist", reqSize, "http.server.request.body.size", attrSet)>>
            ELSE <<>>)
        \o (IF BytesWritten(wrapper) > 0
            THEN <<Ev("hist", BytesWritten(wrapper), "http.server.response.body.size", attrSet)>>
            ELSE <<>>)
        \o <<Ev("hist", 0, "http.server.request.duration", attrSet)>>
        \o (IF IsErrorStatus(statusCode)
            THEN <<Ev("span_status", statusCode, "Error", {<<"description", description>>})>>
                 \o LogCall(LevelError, description)
            ELSE <<Ev("span_status", statusCode, "Ok", {<<"description", "">>})>>
                 \o (IF ~(LevelInfo >= loggerLevel) THEN <<>>
                     ELSE LogCall(IF IsDebugPath(r.Path) THEN LevelDebug ELSE LevelInfo,
                                  StatusText(statusCode))))

\* metricAttrs = append(metricAttrs, statusCodeAttr) inside traceResponse
WithStatusAttr(attrs, statusCode) ==
    attrs \cup {<<"http.response.status_code", ToString(statusCode)>>}

----------------------------------------------------------------------------
(* Initial state *)

NoCall == [fn |-> "none"]

Idle ==
    /\ pc = "start"
    /\ exit = "running"
    /\ events = <<>>
    /\ metricAttrs = {}
    /\ activeRequestsAttrSet = {}
    /\ isDebug = FALSE
    /\ requestBodySize = 0
    /\ bodyStr = <<>>
    /\ capture = "none"
    /\ recovering = NoValue
    /\ ww = NewBasicWriter
    /\ w = NewTransport
    /\ handler = "notcalled"
    /\ handlerOps = 0
    /\ handlerSaw = [read |-> FALSE, data |-> <<>>]
    /\ firstLock = 0
    /\ lastHeaderCode = 0
    /\ calls = <<>>
    /\ call = NoCall
    /\ ret = NoCall
    /\ invocations = <<>>
    /\ ActiveRequestsMetric = EmptyBag

\* WithDebugPaths(paths), lines 408-414
WithDebugPaths(tmo, paths) == [tmo EXCEPT !.DebugPaths = @ \o paths]

\* the paths an operator passes to WithDebugPaths
OperatorDebugPaths == <<"/Admin">>

BaseOptions ==
    [HighCardinalityMetrics : BOOLEAN,
     DebugPaths : {DefaultDebugPaths},
     AllowedRequestHeaders : {<<>>, <<ToLower(TraceparentHeader)>>},
     AllowedResponseHeaders : {<<>>}]

\* NewTracingMiddleware, lines 39-45, with the options the model varies
Init ==
    /\ mode = "serve"
    /\ tmOptions \in BaseOptions \cup
                     {WithDebugPaths(o, OperatorDebugPaths) :
                         o \in {b \in BaseOptions : b.AllowedRequestHeaders = <<>>}}
    /\ loggerLevel \in LoggerLevels
    /\ wrapperWriteErr \in BOOLEAN
    /\ r \in Requests
    /\ tmOptions.AllowedRequestHeaders # <<>> => r \in TraceRequests
    /\ tmOptions.DebugPaths # DefaultDebugPaths => r \in AdminRequests
    \* the url.path attribute of the high-cardinality option does not depend
    \* on the body: it is exercised on the requests without one
    /\ tmOptions.HighCardinalityMetrics => ~r.Body.present
    /\ origBody = r.Body.data
    /\ Idle

envVars == <<mode, tmOptions, loggerLevel, wrapperWriteErr, origBody, call, ret,
             invocations, ActiveRequestsMetric>>

reqVars == <<r, requestBodySize, bodyStr, capture>>
handlerVars == <<handler, handlerOps, handlerSaw>>
writerVars == <<ww, w, firstLock, lastHeaderCode, calls>>

----------------------------------------------------------------------------
(* ServeHTTP *)

\* lines 118-172: attributes, span start unless a debug path, gauge +1
Begin ==
    /\ mode = "serve" /\ pc = "start"
    /\ LET base == {<<"http.request.method", "GET">>, <<"url.scheme", "http">>,
                    <<"server.address", "example.com">>, <<"server.port", "80">>}
           attrs == IF tmOptions.HighCardinalityMetrics
                    THEN base \cup {<<"url.path", r.Path>>} ELSE base
       IN  /\ events' = (IF ~IsDebugPath(r.Path)
                         THEN StartSpan("GET") ELSE <<>>)
                        \o <<Ev("gauge", 1, "http.server.active_requests", attrs)>>
           /\ metricAttrs' = attrs
           /\ activeRequestsAttrSet' = attrs
    /\ isDebug' = (LevelDebug >= loggerLevel)
    /\ pc' = "headers"
    /\ UNCHANGED <<envVars, reqVars, handlerVars, writerVars, exit, recovering>>

\* lines 174-211: protocol attribute, request header projection
ProjectRequestHeaders ==
    /\ mode = "serve" /\ pc = "headers"
    /\ ~NewTelemetryHeaders(r.Header, tmOptions.AllowedRequestHeaders).panic
    /\ metricAttrs' = metricAttrs \cup {<<"network.protocol.version", "1.1">>}
    /\ requestBodySize' = (IF r.Body.present THEN Len(r.Body.data) ELSE 0)
    /\ LET requestLogHeaders ==
               NewTelemetryHeaders(r.Header, tmOptions.AllowedRequestHeaders).hdr
       IN  events' = events \o SpanHeaderAttributes(RequestHeaderPrefix, requestLogHeaders)
    /\ pc' = "wrap"
    /\ UNCHANGED <<envVars, r, bodyStr, capture, handlerVars, writerVars, exit,
                   recovering, activeRequestsAttrSet, isDebug>>

\* line 198 panics inside IsSensitiveHeader: no recovery guard is installed
\* yet, only the deferred span.End runs and the panic leaves ServeHTTP
RequestHeadersPanic ==
    /\ mode = "serve" /\ pc = "headers"
    /\ NewTelemetryHeaders(r.Header, tmOptions.AllowedRequestHeaders).panic
    /\ metricAttrs' = metricAttrs \cup {<<"network.protocol.version", "1.1">>}
    /\ events' = DeferredSpanEnd(events)
    /\ exit' = "panicked"
    /\ pc' = "done"
    /\ UNCHANGED <<envVars, reqVars, handlerVars, writerVars, recovering,
                   activeRequestsAttrSet, isDebug>>

\* lines 213-231: the wrapper, with a tee buffer when debug logging is on
WrapWriter ==
    /\ mode = "serve" /\ pc = "wrap"
    /\ ww' = [NewBasicWriter EXCEPT !.hasTee = isDebug]
    /\ pc' = "capture"
    /\ UNCHANGED <<envVars, reqVars, handlerVars, w, firstLock, lastHeaderCode, calls, exit,
                   recovering, events, metricAttrs, activeRequestsAttrSet, isDebug>>

\* the condition of lines 294-295
ShouldCapture ==
    /\ isDebug
    /\ r.Body.present
    /\ IsContentTypeDebuggable(HeaderGet(r.Header, ContentTypeHeader))

\* io.ReadAll(r.Body) when the reader does not fail
ReadAll(body) == SubSeq(body.data, body.pos + 1, Len(body.data))

\* the drained reader left in place: the body is not made readable again
RestoreBodyDrained(bodyBytes) ==
    [present |-> TRUE, data |-> bodyBytes, pos |-> Len(bodyBytes)]

\* r.Body = io.NopCloser(bytes.NewBuffer(bodyBytes))
RestoreBody(bodyBytes) == BodyReader(bodyBytes)

\* lines 294-312 when the condition is false
CaptureSkip ==
    /\ mode = "serve" /\ pc = "capture"
    /\ ~ShouldCapture
    /\ pc' = "guard"
    /\ UNCHANGED <<envVars, reqVars, handlerVars, writerVars, exit, recovering,
                   events, metricAttrs, activeRequestsAttrSet, isDebug>>

\* debugRequestBody, lines 56 and 75-79, then lines 305-307
CaptureOk ==
    /\ mode = "serve" /\ pc = "capture"
    /\ ShouldCapture
    /\ LET bodyBytes == ReadAll(r.Body)
       IN  /\ bodyStr' = bodyBytes
           /\ r' = [r EXCEPT !.Body = RestoreBody(bodyBytes)]
           /\ requestBodySize' = Len(bodyBytes)
    /\ capture' = "ok"
    /\ pc' = "guard"
    /\ UNCHANGED <<envVars, handlerVars, writerVars, exit, recovering,
                   events, metricAttrs, activeRequestsAttrSet, isDebug>>

ReadFailureDoc ==
    [kind |-> "json", title |-> "Failed to read request body", detail |-> "read error"]

\* debugRequestBody, lines 57-73, when io.ReadAll fails.  The error returned
\* at line 72 is the one declared at line 64 (the result of Encode), not the
\* read error: it is nil whenever the 422 body was written.
CaptureReadFail ==
    /\ mode = "serve" /\ pc = "capture"
    /\ ShouldCapture
    /\ LET p1 == [ww |-> ww, w |-> TransportHeaderSet(w, ContentTypeHeader, contentTypeJSON)]
           p2 == BasicWriteHeader(p1, StatusUnprocessableEntity)
           p3 == WrapperWrite(p2, ReadFailureDoc)
           encodeErr == wrapperWriteErr
       IN  /\ ww' = p3.ww
           /\ w' = p3.w
           /\ firstLock' = StatusUnprocessableEntity
           /\ lastHeaderCode' = StatusUnprocessableEntity
           /\ UNCHANGED calls
           /\ r' = [r EXCEPT !.Body.pos = Len(r.Body.data)]
           /\ IF encodeErr
              THEN \* lines 297-303: finalize with 422, record the error, return
                   /\ events' = DeferredSpanEnd(
                          events
                          \o LogCall(LevelError, "failed to write response")
                          \o TraceResponse(StatusUnprocessableEntity,
                                           "failed to read request body", p3.ww, requestBodySize)
                          \o <<Ev("record_error", 0, "", {})>>)
                   /\ metricAttrs' = WithStatusAttr(metricAttrs, StatusUnprocessableEntity)
                   /\ capture' = "readfail_422"
                   /\ exit' = "returned"
                   /\ pc' = "done"
                   /\ UNCHANGED <<bodyStr, requestBodySize>>
              ELSE \* err == nil at line 297: lines 305-307 run with bodyStr ""
                   /\ bodyStr' = <<>>
                   /\ requestBodySize' = 0
                   /\ capture' = "readfail_continue"
                   /\ pc' = "guard"
                   /\ UNCHANGED <<events, metricAttrs, exit>>
    /\ UNCHANGED <<envVars, handlerVars, recovering, activeRequestsAttrSet, isDebug>>

\* lines 314-339: the recovery guard is deferred and the handler is called
InvokeHandler ==
    /\ mode = "serve" /\ pc = "guard"
    /\ events' = Append(events, Ev("handler_call", 0, "", {}))
    /\ handler' = "running"
    /\ pc' = "handler"
    /\ UNCHANGED <<envVars, reqVars, handlerOps, handlerSaw, writerVars, exit,
                   recovering, metricAttrs, activeRequestsAttrSet, isDebug>>

----------------------------------------------------------------------------
(* The downstream handler, tm.Next.ServeHTTP(ww, rr) at line 339 *)

HandlerStep ==
    /\ mode = "serve" /\ pc = "handler" /\ handler = "running"
    /\ handlerOps < MaxHandlerOps
    /\ handlerOps' = handlerOps + 1

HandlerWriteHeader ==
    /\ HandlerStep
    /\ \E code \in HandlerCodes :
          LET p == BasicWriteHeader([ww |-> ww, w |-> w], code)
          IN  /\ ww' = p.ww
              /\ w' = p.w
              /\ firstLock' = IF firstLock = 0 /\ ~IsInformational(code)
                              THEN code ELSE firstLock
              /\ lastHeaderCode' = code
              /\ UNCHANGED calls
    /\ UNCHANGED <<envVars, reqVars, handler, handlerSaw, pc, exit, recovering,
                   events, metricAttrs, activeRequestsAttrSet, isDebug>>

HandlerWrite ==
    /\ HandlerStep
    /\ LET p == WrapperWrite([ww |-> ww, w |-> w], BytesChunk(<<"x">>))
       IN  /\ ww' = p.ww
           /\ w' = p.w
    /\ firstLock' = IF firstLock = 0 THEN StatusOK ELSE firstLock
    /\ UNCHANGED <<envVars, reqVars, handler, handlerSaw, lastHeaderCode, calls, pc, exit, recovering,
                   events, metricAttrs, activeRequestsAttrSet, isDebug>>

HandlerSetHeader ==
    /\ HandlerStep
    /\ \E name \in ResponseHeaderNames : w' = TransportHeaderSet(w, name, "v")
    /\ UNCHANGED <<envVars, reqVars, handler, handlerSaw, ww, firstLock, lastHeaderCode, calls,
                   pc, exit, recovering, events, metricAttrs, activeRequestsAttrSet, isDebug>>

HandlerReadBody ==
    /\ HandlerStep
    /\ ~handlerSaw.read
    /\ handlerSaw' = [read |-> TRUE, data |-> ReadAll(r.Body)]
    /\ r' = [r EXCEPT !.Body.pos = Len(r.Body.data)]
    /\ UNCHANGED <<envVars, requestBodySize, bodyStr, capture, handler, writerVars,
                   pc, exit, recovering, events, metricAttrs, activeRequestsAttrSet,
                   isDebug>>

HandlerReturn ==
    /\ mode = "serve" /\ pc = "handler" /\ handler = "running"
    /\ handler' = "returned"
    /\ events' = Append(events, Ev("handler_return", 0, "", {}))
    /\ pc' = "after"
    /\ UNCHANGED <<envVars, reqVars, handlerOps, handlerSaw, writerVars, exit,
                   recovering, metricAttrs, activeRequestsAttrSet, isDebug>>

HandlerPanic ==
    /\ mode = "serve" /\ pc = "handler" /\ handler = "running"
    /\ \E v \in PanicValues : recovering' = v
    /\ handler' = "panicked"
    /\ events' = Append(events, Ev("handler_panic", 0, "", {}))
    /\ pc' = "recover"
    /\ UNCHANGED <<envVars, reqVars, handlerOps, handlerSaw, writerVars, exit,
                   metricAttrs, activeRequestsAttrSet, isDebug>>

----------------------------------------------------------------------------
(* After the handler *)

\* the description passed at lines 361-367
Description(statusCode) ==
    IF statusCode >= StatusBadRequest THEN StatusText(statusCode) ELSE "success"

\* lines 341-368 on a normal return: finalize with ww.Status(), then the
\* deferred guard sees recover() == nil and span.End runs
CompleteRequest ==
    /\ mode = "serve" /\ pc = "after"
    /\ ~NewTelemetryHeaders(w.hdr, tmOptions.AllowedResponseHeaders).panic
    /\ LET statusCode == Status(ww)
       IN  /\ events' = DeferredSpanEnd(
                  events
                  \o SpanHeaderAttributes(ResponseHeaderPrefix,
                         NewTelemetryHeaders(w.hdr, tmOptions.AllowedResponseHeaders).hdr)
                  \o TraceResponse(statusCode, Description(statusCode),
                                          ww, requestBodySize))
           /\ metricAttrs' = WithStatusAttr(metricAttrs, statusCode)
    /\ exit' = "returned"
    /\ pc' = "done"
    /\ UNCHANGED <<envVars, reqVars, handlerVars, writerVars, recovering,
                   activeRequestsAttrSet, isDebug>>

\* line 342 panics inside IsSensitiveHeader on a response header name: the
\* deferred guard recovers the runtime error
ResponseHeadersPanic ==
    /\ mode = "serve" /\ pc = "after"
    /\ NewTelemetryHeaders(w.hdr, tmOptions.AllowedResponseHeaders).panic
    /\ recovering' = RuntimeError
    /\ pc' = "recover"
    /\ UNCHANGED <<envVars, reqVars, handlerVars, writerVars, exit, events,
                   metricAttrs, activeRequestsAttrSet, isDebug>>

\* the body built at lines 319-326
ProblemDoc(statusCode, path, err) ==
    [kind |-> "json", status |-> statusCode, title |-> StatusText(statusCode),
     instance |-> path, cause |-> JSONCause(err)]

\* writeResponseJSON(w, statusCode, body, logger) on the raw writer: the
\* transport after the call, and whether Encode failed
WriteResponseJSON(u, statusCode, path, err) ==
    LET u1 == TransportHeaderSet(u, ContentTypeHeader, contentTypeJSON)
        u2 == TransportWriteHeader(u1, statusCode)
    IN  IF JSONEncodable(err)
        THEN [w |-> TransportWrite(u2, ProblemDoc(statusCode, path, err)), failed |-> FALSE]
        ELSE [w |-> u2, failed |-> TRUE]

\* the deferred guard of lines 314-335 with a recovered value, then span.End
Recover ==
    /\ mode = "serve" /\ pc = "recover"
    /\ LET statusCode == StatusInternalServerError
           res == WriteResponseJSON(w, statusCode, r.Path, recovering)
       IN  /\ events' = DeferredSpanEnd(
                  events
                  \o TraceResponse(statusCode, "internal server error", ww, requestBodySize)
                  \o (IF res.failed
                      THEN LogCall(LevelError, "failed to write response") ELSE <<>>))
           /\ metricAttrs' = WithStatusAttr(metricAttrs, statusCode)
           /\ w' = res.w
    /\ exit' = "returned"
    /\ pc' = "done"
    /\ UNCHANGED <<envVars, reqVars, handlerVars, ww, firstLock, lastHeaderCode, calls,
                   recovering, activeRequestsAttrSet, isDebug>>

Next ==
    \/ Begin
    \/ ProjectRequestHeaders
    \/ RequestHeadersPanic
    \/ WrapWriter
    \/ CaptureSkip
    \/ CaptureOk
    \/ CaptureReadFail
    \/ InvokeHandler
    \/ HandlerWriteHeader
    \/ HandlerWrite
    \/ HandlerSetHeader
    \/ HandlerReadBody
    \/ HandlerReturn
    \/ HandlerPanic
    \/ CompleteRequest
    \/ ResponseHeadersPanic
    \/ Recover

Spec == Init /\ [][Next]_vars

----------------------------------------------------------------------------
(* Collaborator failure inside the finalization closure: the logger call of *)
(* line 274 / 291 panics (a slog handler supplied by the host).             *)

LoggerPanic == [kind |-> "string", val |-> "logger panic"]

\* traceResponse up to the logger call that panics
TraceResponseUntilLog(statusCode, description, wrapper, reqSize) ==
    SelectSeq(TraceResponse(statusCode, description, wrapper, reqSize),
              LAMBDA e : e.ev # "log")

\* lines 361-367: traceResponse panics on the normal path; the deferred guard
\* of lines 314-335 recovers the value
FinalizeFault ==
    /\ mode = "serve" /\ pc = "after"
    /\ ~NewTelemetryHeaders(w.hdr, tmOptions.AllowedResponseHeaders).panic
    /\ LET statusCode == Status(ww)
       IN  /\ events' = events
                        \o SpanHeaderAttributes(ResponseHeaderPrefix,
                               NewTelemetryHeaders(w.hdr, tmOptions.AllowedResponseHeaders).hdr)
                        \o TraceResponseUntilLog(statusCode, Description(statusCode),
                                                        ww, requestBodySize)
           /\ metricAttrs' = WithStatusAttr(metricAttrs, statusCode)
    /\ recovering' = LoggerPanic
    /\ pc' = "recover"
    /\ UNCHANGED <<envVars, reqVars, handlerVars, writerVars, exit,
                   activeRequestsAttrSet, isDebug>>

\* line 317: traceResponse panics inside the deferred guard; the new panic
\* leaves ServeHTTP after the deferred span.End
RecoverFault ==
    /\ mode = "serve" /\ pc = "recover"
    /\ events' = DeferredSpanEnd(
           events \o TraceResponseUntilLog(StatusInternalServerError,
                                           "internal server error", ww, requestBodySize))
    /\ metricAttrs' = WithStatusAttr(metricAttrs, StatusInternalServerError)
    /\ exit' = "panicked"
    /\ pc' = "done"
    /\ UNCHANGED <<envVars, reqVars, handlerVars, writerVars, recovering,
                   activeRequestsAttrSet, isDebug>>

NextFault == Next \/ FinalizeFault \/ RecoverFault

SpecFault == Init /\ [][NextFault]_vars

----------------------------------------------------------------------------
(* The wrapper driven directly: any sequence of calls on a fresh basicWriter *)

WriterCodes == {100, 101, 200, 404}

WriterBuffers == {<<"a">>, <<"a", "b">>}

InitWriter ==
    /\ mode = "writer"
    /\ tmOptions = [HighCardinalityMetrics |-> FALSE, DebugPaths |-> DefaultDebugPaths,
                    AllowedRequestHeaders |-> <<>>, AllowedResponseHeaders |-> <<>>]
    /\ loggerLevel = LevelInfo
    /\ wrapperWriteErr = FALSE
    /\ r = [Path |-> "/hello", Header |-> <<>>, Body |-> NoBody]
    /\ origBody = <<>>
    /\ Idle

\* one call made on the wrapper: the arguments, the wrapper's flags when the
\* call was made, and what the call returned
WriterCall(op, code, buf, n, err) ==
    [op |-> op, code |-> code, buf |-> buf, discard |-> ww.discard,
     hasTee |-> ww.hasTee, locked |-> ww.headerWritten, n |-> n, err |-> err]

WriterStep ==
    /\ mode = "writer"
    /\ handlerOps < MaxWriterOps
    /\ handlerOps' = handlerOps + 1
    /\ UNCHANGED <<envVars, reqVars, handler, handlerSaw, pc, exit, recovering,
                   events, metricAttrs, activeRequestsAttrSet, isDebug>>

WriterWriteHeader ==
    /\ WriterStep
    /\ \E code \in WriterCodes :
          LET p == BasicWriteHeader([ww |-> ww, w |-> w], code)
          IN  /\ ww' = p.ww
              /\ w' = p.w
              /\ firstLock' = IF firstLock = 0 /\ ~IsInformational(code)
                              THEN code ELSE firstLock
              /\ lastHeaderCode' = code
              /\ calls' = Append(calls, WriterCall("WriteHeader", code, <<>>, 0, "nil"))

WriterWrite ==
    /\ WriterStep
    /\ \E buf \in WriterBuffers :
          LET p == BasicWrite([ww |-> ww, w |-> w], BytesChunk(buf))
              res == BasicWriteReturn([ww |-> ww, w |-> w], BytesChunk(buf))
          IN  /\ ww' = p.ww
              /\ w' = p.w
              /\ calls' = Append(calls, WriterCall("Write", 0, buf, res.n, res.err))
    /\ firstLock' = IF firstLock = 0 THEN StatusOK ELSE firstLock
    /\ UNCHANGED lastHeaderCode

\* Tee(w): attach a side buffer
WriterTee ==
    /\ WriterStep
    /\ ~ww.hasTee
    /\ ww' = [ww EXCEPT !.hasTee = TRUE]
    /\ UNCHANGED <<w, firstLock, lastHeaderCode, calls>>

\* Discard(): stop forwarding body bytes to the transport
WriterDiscard ==
    /\ WriterStep
    /\ ~ww.discard
    /\ ww' = [ww EXCEPT !.discard = TRUE]
    /\ UNCHANGED <<w, firstLock, lastHeaderCode, calls>>

NextWriter == WriterWriteHeader \/ WriterWrite \/ WriterTee \/ WriterDiscard

SpecWriter == InitWriter /\ [][NextWriter]_vars

----------------------------------------------------------------------------
(* The otelutils functions applied on their own: one application per        *)
(* behaviour, to arguments drawn from the sets below.                       *)

NameAlphabet == {"k", "e", "y", "K", "t", "o"}

FixedNames ==
    {<<"A","u","t","h","o","r","i","z","a","t","i","o","n">>, <<"A","p","i","-","K","e","y">>,
     <<"X","-","S","e","c","r","e","t","-","T","o","k","e","n">>, <<"P","a","s","s","w","o","r","d">>,
     <<"X","-","A","u","t","h","-","T","o","k","e","n">>, <<"C","o","n","t","e","n","t","-","T","y","p","e">>,
     <<"A","c","c","e","p","t">>, <<"X","-","P","a","s","s">>,
     <<"p","a","s","s","w","o","r","d","l","e","s","s">>, <<"X","Y">>}

HeaderNames ==
    FixedNames \cup UNION {[1..n -> NameAlphabet] : n \in 0..MaxNameLen}

MaskInputs == UNION {[1..n -> Bytes] : n \in 0..MaxValueLen}

UtilHeaderKeys ==
    {ContentTypeHeader, AuthorizationHeader, ApiKeyDashHeader, EmptyHeader,
     TraceparentHeader, B3Header, TokHeader}

\* the values each header carries in the collections below
UtilValues(key) ==
    CASE key = ContentTypeHeader -> <<"application/json">>
      [] key = AuthorizationHeader -> <<"Bearer abcdefghijk">>
      [] key = ApiKeyDashHeader -> <<"abcxyz", "second">>
      [] key = EmptyHeader -> <<>>
      [] key = TraceparentHeader -> <<"00-4bf9-00f0-01">>
      [] key = B3Header -> <<"1">>
      [] OTHER -> <<"v">>

UtilHeaders == {[key \in S |-> UtilValues(key)] : S \in SUBSET UtilHeaderKeys}

AllowLists ==
    {<<>>,
     <<ToLower(ContentTypeHeader), ToLower(ApiKeyDashHeader)>>,
     <<ContentTypeHeader, ApiKeyDashHeader>>,
     <<ToLower(TraceparentHeader), ToLower(AuthorizationHeader)>>,
     <<ToLower(EmptyHeader), ToLower(B3Header)>>}

InitUtils ==
    /\ mode = "utils"
    /\ tmOptions = [HighCardinalityMetrics |-> FALSE, DebugPaths |-> DefaultDebugPaths,
                    AllowedRequestHeaders |-> <<>>, AllowedResponseHeaders |-> <<>>]
    /\ loggerLevel = LevelInfo
    /\ wrapperWriteErr = FALSE
    /\ r = [Path |-> "/hello", Header |-> <<>>, Body |-> NoBody]
    /\ origBody = <<>>
    /\ Idle

utilFrame == <<mode, tmOptions, loggerLevel, wrapperWriteErr, origBody, reqVars,
               handlerVars, writerVars, pc, exit, events, metricAttrs,
               activeRequestsAttrSet, isDebug, recovering, invocations,
               ActiveRequestsMetric>>

\* IsSensitiveHeader(name), in its keyword-table and its regular-expression version
CallIsSensitiveHeader ==
    /\ mode = "utils" /\ call.fn = "none"
    /\ \E name \in HeaderNames :
          /\ call' = [fn |-> "IsSensitiveHeader", name |-> name]
          /\ ret' = [table |-> IsSensitiveHeader(name),
                     regex |-> IsSensitiveHeaderRegex(name)]
    /\ UNCHANGED utilFrame

\* MaskString(input)
CallMaskString ==
    /\ mode = "utils" /\ call.fn = "none"
    /\ \E input \in MaskInputs :
          /\ call' = [fn |-> "MaskString", input |-> input]
          /\ ret' = MaskStringByLength(input)
    /\ UNCHANGED utilFrame

\* NewTelemetryHeaders(httpHeaders, allowedHeaders...)
CallNewTelemetryHeaders ==
    /\ mode = "utils" /\ call.fn = "none"
    /\ \E httpHeaders \in UtilHeaders, allowedHeaders \in AllowLists :
          /\ call' = [fn |-> "NewTelemetryHeaders", httpHeaders |-> httpHeaders,
                      allowedHeaders |-> allowedHeaders]
          /\ ret' = NewTelemetryHeaders(httpHeaders, allowedHeaders)
    /\ UNCHANGED utilFrame

\* SetSpanHeaderAttributes(span, prefix, headers, allowedHeaders...)
CallSetSpanHeaderAttributes ==
    /\ mode = "utils" /\ call.fn = "none"
    /\ \E headers \in UtilHeaders, allowedHeaders \in AllowLists :
          /\ call' = [fn |-> "SetSpanHeaderAttributes", prefix |-> RequestHeaderPrefix,
                      headers |-> headers, allowedHeaders |-> allowedHeaders]
          /\ ret' = SetSpanHeaderAttributes(RequestHeaderPrefix, headers, allowedHeaders)
    /\ UNCHANGED utilFrame

\* the header telemetry of ServeHTTP (lines 197-211 for the request, lines
\* 341-352 for the response) computed for two header collections, the second
\* being the first with the values of some of its headers replaced: the
\* header group of the log line and the span attributes, or the panic
CallHeaderTelemetry ==
    /\ mode = "utils" /\ call.fn = "none"
    /\ \E first \in UtilHeaders, allowedHeaders \in AllowLists,
          prefix \in {RequestHeaderPrefix, ResponseHeaderPrefix} :
       \E changed \in SUBSET (DOMAIN first \cap {AuthorizationHeader, ApiKeyDashHeader,
                                                  ContentTypeHeader}) :
          LET second == [k \in DOMAIN first |->
                            IF k \in changed THEN <<"changed", "again">> ELSE first[k]]
              Telemetry(headers) ==
                  LET logHeaders == NewTelemetryHeaders(headers, allowedHeaders)
                  IN  IF logHeaders.panic
                      THEN [panic |-> TRUE, log |-> <<>>, span |-> {}]
                      ELSE [panic |-> FALSE, log |-> logHeaders.hdr,
                            span |-> SetSpanHeaderAttributes(prefix, logHeaders.hdr, <<>>)]
          IN  /\ call' = [fn |-> "HeaderTelemetry", first |-> first, second |-> second,
                          allowedHeaders |-> allowedHeaders, prefix |-> prefix]
              /\ ret' = [first |-> Telemetry(first), second |-> Telemetry(second)]
    /\ UNCHANGED utilFrame

\* the tracing context of a request: none, or one with a trace ID
SpanContexts ==
    {[hasTraceID |-> FALSE, traceID |-> "00000000000000000000000000000000"],
     [hasTraceID |-> TRUE, traceID |-> "0102030405060708090a0b0c0d0e0f10"]}

\* values uuid.NewString() can produce
UUIDs == {"5f2c1a52-0d3e-4c6e-9d2a-3f1b7c8e9a01", "9b7e6d10-4a2f-4e8b-8c3d-2a1f0e9d8c02"}

RequestIdValues == {<<>>, <<"">>, <<"test-request-id">>, <<"", "second">>, <<"first", "second">>}

RequestIdRequests ==
    {[Header |-> [k \in S \cup {CanonicalKey(XRequestIdHeader)} |->
                    IF k = CanonicalKey(XRequestIdHeader) THEN v ELSE UtilValues(k)],
      spanContext |-> sc] :
        S \in SUBSET {ContentTypeHeader, AuthorizationHeader},
        v \in RequestIdValues, sc \in SpanContexts}
    \cup {[Header |-> [k \in S |-> UtilValues(k)], spanContext |-> sc] :
            S \in SUBSET {ContentTypeHeader, AuthorizationHeader}, sc \in SpanContexts}

HostPortAlphabet == {"h", "[", "]", ":", "8", "-"}

FixedHostPorts ==
    {<<"e","x","a","m","p","l","e",".","c","o","m",":","8","0","8","0">>, <<"e","x","a","m","p","l","e",".","c","o","m">>, <<"[",":",":","1","]",":","8","0","8","0">>,
     <<"[",":",":","1","]">>, <<"[","f","e","8","0",":",":","1","%","l","o","0","]",":","8","0","8","0">>,
     <<":","8","0","8","0">>, <<"[",":",":","1">>, <<"h",":","6","5","5","3","5">>,
     <<"h",":","6","5","5","3","6">>, <<"h",":","7","0","0","0","0">>, <<"h",":","+","8","0">>}

HostPorts ==
    FixedHostPorts \cup UNION {[1..n -> HostPortAlphabet] : n \in 0..MaxHostPortLen}

URLSchemes == {"http", "https", ""}

\* SplitHostPort(hostport, urlScheme)
CallSplitHostPort ==
    /\ mode = "utils" /\ call.fn = "none"
    /\ \E hostport \in HostPorts, urlScheme \in URLSchemes :
          /\ call' = [fn |-> "SplitHostPort", hostport |-> hostport,
                      urlScheme |-> urlScheme]
          /\ ret' = SplitHostPort(hostport, urlScheme)
    /\ UNCHANGED utilFrame

OTLPConfigs ==
    [LogsExporter : {"", "none", "otlp"},
     MetricsExporter : {"", "none", "otlp", "prometheus", "stdout"},
     DisableGoMetrics : {"nil", "true", "false"}]

\* config.GetLogsExporter()
CallGetLogsExporter ==
    /\ mode = "utils" /\ call.fn = "none"
    /\ \E oc \in OTLPConfigs :
          /\ call' = [fn |-> "GetLogsExporter", oc |-> oc]
          /\ ret' = GetLogsExporter(oc)
    /\ UNCHANGED utilFrame

\* setupOTelMetricsProvider(ctx, config, resources, otelDisabled)
CallSetupOTelMetricsProvider ==
    /\ mode = "utils" /\ call.fn = "none"
    /\ \E config \in OTLPConfigs :
          /\ call' = [fn |-> "setupOTelMetricsProvider", config |-> config]
          /\ ret' = setupOTelMetricsProvider(config)
    /\ UNCHANGED utilFrame

\* getRequestID(r)
CallGetRequestID ==
    /\ mode = "utils" /\ call.fn = "none"
    /\ \E req \in RequestIdRequests, newUUID \in UUIDs :
          /\ call' = [fn |-> "getRequestID", r |-> req]
          /\ ret' = getRequestID(req, newUUID)
    /\ UNCHANGED utilFrame

NextUtils ==
    \/ CallHeaderTelemetry
    \/ CallGetLogsExporter
    \/ CallSetupOTelMetricsProvider
    \/ CallSplitHostPort
    \/ CallGetRequestID
    \/ CallIsSensitiveHeader
    \/ CallMaskString
    \/ CallNewTelemetryHeaders
    \/ CallSetSpanHeaderAttributes

SpecUtils == InitUtils /\ [][NextUtils]_vars

----------------------------------------------------------------------------
(* Concurrent requests: NumInvocations invocations of ServeHTTP on one       *)
(* middleware instance, interleaved at the points where they touch what the *)
(* instance shares (the options and the active-requests instrument).  Each  *)
(* invocation owns its locals: r, its position, its activeRequestsAttrSet.  *)

\* the instance built by NewTracingMiddleware, and the requests handed to it
InitConc ==
    /\ mode = "conc"
    /\ tmOptions \in {o \in BaseOptions : o.AllowedRequestHeaders = <<>>}
    /\ loggerLevel = LevelInfo
    /\ wrapperWriteErr = FALSE
    /\ r = [Path |-> "/hello", Header |-> <<>>, Body |-> NoBody]
    /\ origBody = <<>>
    /\ pc = "start"
    /\ exit = "running"
    /\ events = <<>>
    /\ metricAttrs = {}
    /\ activeRequestsAttrSet = {}
    /\ isDebug = FALSE
    /\ requestBodySize = 0
    /\ bodyStr = <<>>
    /\ capture = "none"
    /\ recovering = NoValue
    /\ ww = NewBasicWriter
    /\ w = NewTransport
    /\ handler = "notcalled"
    /\ handlerOps = 0
    /\ handlerSaw = [read |-> FALSE, data |-> <<>>]
    /\ firstLock = 0
    /\ lastHeaderCode = 0
    /\ calls = <<>>
    /\ call = NoCall
    /\ ret = NoCall
    /\ invocations \in
          [1..NumInvocations ->
              {[r |-> [Path |-> p, Header |-> MakeHeader("application/json", extra),
                       Body |-> NoBody],
                pc |-> "start", exit |-> "running", activeRequestsAttrSet |-> {},
                handler |-> "notcalled"] :
                  p \in Paths, extra \in {{}, {TokHeader}}}]
    /\ ActiveRequestsMetric = EmptyBag

\* lines 118-172 of one invocation: the attribute set is built from the
\* request and the options, and the shared gauge receives Add(+1)
ConcBegin ==
    /\ mode = "conc"
    /\ \E i \in DOMAIN invocations :
          /\ invocations[i].pc = "start"
          /\ LET base == {<<"http.request.method", "GET">>, <<"url.scheme", "http">>,
                           <<"server.address", "example.com">>, <<"server.port", "80">>}
                 attrs == IF tmOptions.HighCardinalityMetrics
                          THEN base \cup {<<"url.path", invocations[i].r.Path>>} ELSE base
             IN  /\ ActiveRequestsMetric' =
                        ActiveRequestsMetric (+) SetToBag({[attrs |-> attrs, delta |-> 1]})
                 /\ invocations' = [invocations EXCEPT ![i].pc = "headers",
                                                       ![i].activeRequestsAttrSet = attrs]
    /\ UNCHANGED <<mode, tmOptions, loggerLevel, wrapperWriteErr, origBody, call, ret,
                   reqVars, handlerVars, writerVars, pc, exit, events, metricAttrs,
                   activeRequestsAttrSet, isDebug, recovering>>

\* line 198 of one invocation: the request header projection returns, or
\* panics before any guard is deferred and the invocation exits by panic
ConcProjectHeaders ==
    /\ mode = "conc"
    /\ \E i \in DOMAIN invocations :
          /\ invocations[i].pc = "headers"
          /\ invocations' =
                IF NewTelemetryHeaders(invocations[i].r.Header,
                                       tmOptions.AllowedRequestHeaders).panic
                THEN [invocations EXCEPT ![i].pc = "done", ![i].exit = "panicked"]
                ELSE [invocations EXCEPT ![i].pc = "handler"]
    /\ UNCHANGED <<mode, tmOptions, loggerLevel, wrapperWriteErr, origBody, call, ret,
                   reqVars, handlerVars, writerVars, pc, exit, events, metricAttrs,
                   activeRequestsAttrSet, isDebug, recovering, ActiveRequestsMetric>>

\* lines 314-339 of one invocation: the guard is deferred and the handler
\* runs; it returns or panics, and either way the finalization follows
ConcHandler ==
    /\ mode = "conc"
    /\ \E i \in DOMAIN invocations, outcome \in {"returned", "panicked"} :
          /\ invocations[i].pc = "handler"
          /\ invocations' = [invocations EXCEPT ![i].pc = "finalize",
                                                ![i].handler = outcome]
    /\ UNCHANGED <<mode, tmOptions, loggerLevel, wrapperWriteErr, origBody, call, ret,
                   reqVars, handlerVars, writerVars, pc, exit, events, metricAttrs,
                   activeRequestsAttrSet, isDebug, recovering, ActiveRequestsMetric>>

\* traceResponse of one invocation (lines 233-238), called at line 317 or at
\* lines 361-367: the shared gauge receives Add(-1) with the invocation's
\* attribute set, and ServeHTTP returns
ConcFinalize ==
    /\ mode = "conc"
    /\ \E i \in DOMAIN invocations :
          /\ invocations[i].pc = "finalize"
          /\ ActiveRequestsMetric' =
                ActiveRequestsMetric
                (+) SetToBag({[attrs |-> invocations[i].activeRequestsAttrSet,
                               delta |-> 0 - 1]})
          /\ invocations' = [invocations EXCEPT ![i].pc = "done", ![i].exit = "returned"]
    /\ UNCHANGED <<mode, tmOptions, loggerLevel, wrapperWriteErr, origBody, call, ret,
                   reqVars, handlerVars, writerVars, pc, exit, events, metricAttrs,
                   activeRequestsAttrSet, isDebug, recovering>>

NextConc ==
    \/ ConcBegin
    \/ ConcProjectHeaders
    \/ ConcHandler
    \/ ConcFinalize

SpecConc == InitConc /\ [][NextConc]_vars

----------------------------------------------------------------------------
(* Helpers for the properties *)

EventsOf(kind) == SelectSeq(events, LAMBDA e : e.ev = kind)

GaugeCalls(delta) == SelectSeq(events, LAMBDA e : e.ev = "gauge" /\ e.code = delta)

Exited == exit # "running"

\* the summary line of the finalization closure, as opposed to the
\* "failed to write response" diagnostic of the JSON writers
IsSummaryLog(e) == e.ev = "log" /\ e.text # "failed to write response"

----------------------------------------------------------------------------
(* C1 *)

\* C1: for every request, once ServeHTTP has exited the active-requests gauge
\* was incremented exactly once and decremented exactly once, both calls
\* carrying the same attribute set.
C1_GaugePairedOnExit ==
    Exited =>
        /\ Len(GaugeCalls(1)) = 1
        /\ Len(GaugeCalls(0 - 1)) = 1
        /\ GaugeCalls(1)[1].attrs = GaugeCalls(0 - 1)[1].attrs

----------------------------------------------------------------------------
(* C2 *)

\* C2: the finalization closure is invoked exactly once per request: when
\* ServeHTTP has exited, traceResponse has been called once, never zero times
\* and never twice, also when a later step or the finalization itself fails.
C2_FinalizedExactlyOnce ==
    Exited => Len(EventsOf("finalize")) = 1

----------------------------------------------------------------------------
(* C3 *)

\* C3: whenever the handler panics, the panic does not leave ServeHTTP,
\* finalization runs with status 500 and the client receives a 500 response
\* with Content-Type application/json whose body is the problem document with
\* status 500, title "Internal Server Error", instance the request path and
\* cause the panic value.
C3_PanicBecomes500 ==
    (handler = "panicked" /\ Exited) =>
        /\ exit = "returned"
        /\ Len(EventsOf("finalize")) = 1
        /\ EventsOf("finalize")[1].code = StatusInternalServerError
        /\ w.status = StatusInternalServerError
        /\ w.sentCT = contentTypeJSON
        /\ Len(w.body) = 1
        /\ w.body[1].kind = "json"
        /\ w.body[1].status = StatusInternalServerError
        /\ w.body[1].title = "Internal Server Error"
        /\ w.body[1].instance = r.Path
        /\ recovering.kind = "string"
        /\ w.body[1].cause = recovering.val

----------------------------------------------------------------------------
(* C4 *)

\* C4: when debug capture fails to read the request body, the handler is
\* never invoked, and the request ends finalized with status 422 with the
\* error recorded on the span and a 422 response written.
C4_ReadFailureStopsRequest ==
    (capture \in {"readfail_continue", "readfail_422"}) =>
        /\ handler = "notcalled"
        /\ w.status = StatusUnprocessableEntity
        /\ Exited
        /\ Len(EventsOf("finalize")) = 1
        /\ EventsOf("finalize")[1].code = StatusUnprocessableEntity
        /\ Len(EventsOf("record_error")) = 1

----------------------------------------------------------------------------
(* C5 *)

\* C5: when debug capture succeeds, the string it returns is the complete
\* original body and the request body is a fresh reader over the same bytes:
\* a full read by the handler yields exactly the original body.
C5_BodyRoundTrip ==
    capture = "ok" =>
        /\ bodyStr = origBody
        /\ requestBodySize = Len(origBody)
        /\ (handlerSaw.read => handlerSaw.data = origBody)
        /\ (~handlerSaw.read => (r.Body.present /\ ReadAll(r.Body) = origBody))

C5_Witness ==
    /\ capture = "ok"
    /\ handlerSaw.read
    /\ Len(origBody) > 0
    /\ handlerSaw.data = origBody

----------------------------------------------------------------------------
(* C6 *)

\* C6: for a request to a configured debug path, no span is started, the
\* active-requests gauge and the request-duration histogram are recorded, and
\* a successful outcome is logged at Debug level, not Info.
C6_DebugPathTelemetry ==
    (IsDebugPath(r.Path) /\ Exited) =>
        /\ Len(EventsOf("span_start")) = 0
        /\ Len(GaugeCalls(1)) = 1
        /\ \E i \in 1..Len(events) :
              events[i].ev = "hist" /\ events[i].text = "http.server.request.duration"
        /\ \A i \in 1..Len(events) :
              (IsSummaryLog(events[i]) /\ EventsOf("finalize")[1].code < StatusBadRequest)
                  => events[i].code = LevelDebug

----------------------------------------------------------------------------
(* C7 *)

\* C7: every request produces exactly one log line from the middleware, on
\* every exit path and for every logger level.
C7_ExactlyOneLogLine ==
    Exited => Len(EventsOf("log")) = 1

----------------------------------------------------------------------------
(* C8 *)

\* the events of the finalization that starts at index i
FinalizationSegment(i) ==
    {j \in (i + 1)..Len(events) :
        \A k \in (i + 1)..j : events[k].ev # "finalize"}

\* C8: finalization classifies the outcome by the status code it is given,
\* which on normal completion is ww.Status(): status >= 400 sets the span
\* status to Error with the description and logs the summary at Error level;
\* status < 400 sets the span status to Ok and logs the summary at Info level,
\* Debug for a debug path.
C8_ClassifiedByStatus ==
    /\ \A i \in 1..Len(events) :
          events[i].ev = "finalize" =>
              LET st == events[i].code
                  desc == events[i].text
                  seg == FinalizationSegment(i)
                  isErr == st >= 400
                  level == IF isErr THEN LevelError
                           ELSE IF IsDebugPath(r.Path) THEN LevelDebug ELSE LevelInfo
              IN  /\ \E j \in seg : events[j].ev = "span_status"
                  /\ \A j \in seg :
                        events[j].ev = "span_status" =>
                            /\ events[j].text = (IF isErr THEN "Error" ELSE "Ok")
                            /\ events[j].attrs =
                                   {<<"description", IF isErr THEN desc ELSE "">>}
                  /\ \A j \in seg :
                        IsSummaryLog(events[j]) =>
                            /\ events[j].code = level
                            /\ events[j].text = (IF isErr THEN desc ELSE StatusText(st))
                  /\ (level >= loggerLevel) => \E j \in seg : IsSummaryLog(events[j])
    /\ (Exited /\ handler = "returned" /\ recovering.kind = "none") =>
          /\ Len(EventsOf("finalize")) = 1
          /\ EventsOf("finalize")[1].code = Status(ww)

C8_Witness ==
    /\ Exited
    /\ handler = "returned"
    /\ Len(EventsOf("finalize")) = 1
    /\ EventsOf("finalize")[1].code = 404
    /\ \E i \in 1..Len(events) :
          /\ events[i].ev = "span_status" /\ events[i].text = "Error"
          /\ events[i].attrs = {<<"description", "Not Found">>}
    /\ \E i \in 1..Len(events) : IsSummaryLog(events[i]) /\ events[i].code = LevelError

----------------------------------------------------------------------------
(* C9 *)

\* the telemetry the claim speaks of: gauge decrement, histogram recordings,
\* the summary log line and span End
IsClosingTelemetry(e) ==
    \/ (e.ev = "gauge" /\ e.code < 0)
    \/ e.ev = "hist"
    \/ IsSummaryLog(e)
    \/ e.ev = "span_end"

HandlerExitedBefore(i) ==
    \E j \in 1..(i - 1) : events[j].ev \in {"handler_return", "handler_panic"}

----------------------------------------------------------------------------
(* C10 *)

\* C10: after any sequence of WriteHeader and Write calls on the wrapper,
\* Status() is the code of the first status-locking call, a Write made before
\* any locking WriteHeader counting as WriteHeader(200); a later WriteHeader
\* with a code >= 200 leaves Status() unchanged.
C10_StatusIsFirstLock ==
    /\ firstLock # 0 => (ww.headerWritten /\ Status(ww) = firstLock)
    /\ firstLock = 0 => ~ww.headerWritten

C10_Witness ==
    /\ mode = "writer"
    /\ firstLock = 200
    /\ lastHeaderCode = 404
    /\ BytesWritten(ww) > 0
    /\ Status(ww) = 200

----------------------------------------------------------------------------
(* C11 *)

WriteCalls == SelectSeq(calls, LAMBDA c : c.op = "Write")

\* C11: a WriteHeader call with a code in [100,200) other than 101 leaves the
\* header-written flag and Status() as they were, so the flag is never set by
\* it and a later WriteHeader with a final code is still recorded; a
\* WriteHeader call with 101 or a code >= 200 made while the flag is unset sets
\* the flag and makes Status() return that code.
C11_InformationalNeverLocks ==
    [][ ( /\ mode = "writer"
          /\ Len(calls') = Len(calls) + 1
          /\ calls'[Len(calls')].op = "WriteHeader" )
        => LET code == calls'[Len(calls')].code
           IN  IF code >= 100 /\ code < 200 /\ code # 101
               THEN /\ ww'.headerWritten = ww.headerWritten
                    /\ Status(ww') = Status(ww)
               ELSE ~ww.headerWritten => (ww'.headerWritten /\ Status(ww') = code)
      ]_vars

C11_Witness ==
    /\ mode = "writer"
    /\ \E i, j, k \in DOMAIN calls :
          /\ i < j /\ j < k
          /\ calls[i].op = "WriteHeader" /\ calls[i].code = 100
          /\ calls[j].op = "WriteHeader" /\ calls[j].code = 101 /\ ~calls[j].locked
          /\ calls[k].op = "WriteHeader" /\ calls[k].code = 404
    /\ ww.headerWritten
    /\ Status(ww) = 101

----------------------------------------------------------------------------
(* C12 *)

RECURSIVE TotalLen(_)
TotalLen(cs) == IF cs = <<>> THEN 0 ELSE Len(Head(cs).buf) + TotalLen(Tail(cs))

\* C12: after any sequence of Write calls on the wrapper, with discard on or
\* off and with or without a tee target, BytesWritten() is the sum of the
\* lengths of all buffers passed to Write, and every Write call returned
\* (len(buffer), nil).
C12_BytesWrittenIsSum ==
    mode = "writer" =>
        /\ BytesWritten(ww) = TotalLen(WriteCalls)
        /\ \A i \in DOMAIN calls :
              calls[i].op = "Write" =>
                  (calls[i].n = Len(calls[i].buf) /\ calls[i].err = "nil")

C12_Witness ==
    /\ mode = "writer"
    /\ \E i, j \in DOMAIN calls :
          /\ calls[i].op = "Write" /\ ~calls[i].discard /\ Len(calls[i].buf) = 1
          /\ calls[j].op = "Write" /\ calls[j].discard /\ ~calls[j].hasTee
          /\ Len(calls[j].buf) = 2
    /\ BytesWritten(ww) = 3

----------------------------------------------------------------------------
(* C13 *)

RECURSIVE Flatten(_)
Flatten(chunks) ==
    IF chunks = <<>> THEN <<>> ELSE Head(chunks).data \o Flatten(Tail(chunks))

RECURSIVE ConcatBufs(_)
ConcatBufs(cs) == IF cs = <<>> THEN <<>> ELSE Head(cs).buf \o ConcatBufs(Tail(cs))

\* C13: after any sequence of Write calls, the tee target holds the
\* concatenation of all buffers written since it was attached, whether or not
\* discard was on, and the body of the underlying transport holds the
\* concatenation of the buffers written while discard was off only: a Write
\* made in discard mode adds nothing to the underlying body.
C13_TeeAllBodyUndiscarded ==
    mode = "writer" =>
        /\ Flatten(ww.tee) = ConcatBufs(SelectSeq(WriteCalls, LAMBDA c : c.hasTee))
        /\ Flatten(w.body) = ConcatBufs(SelectSeq(WriteCalls, LAMBDA c : ~c.discard))

C13_Witness ==
    /\ mode = "writer"
    /\ \E i, j \in DOMAIN calls :
          /\ i < j
          /\ calls[i].op = "Write" /\ calls[i].hasTee /\ ~calls[i].discard
          /\ calls[j].op = "Write" /\ calls[j].hasTee /\ calls[j].discard
    /\ Len(Flatten(ww.tee)) > Len(Flatten(w.body))
    /\ Len(Flatten(w.body)) > 0

----------------------------------------------------------------------------
(* C14 *)

\* C14: IsSensitiveHeader (keyword table) returns true for every header name
\* that contains auth, key, secret, token or password as a case-insensitive
\* substring, and false for every name shorter than 3 characters.
C14_KeywordNamesAreSensitive ==
    (mode = "utils" /\ call.fn = "IsSensitiveHeader") =>
        /\ MatchString(sensitiveHeaderRegex, ToLower(call.name)) => ret.table = "true"
        /\ Len(call.name) < 3 => ret.table = "false"

C14_Witness ==
    /\ mode = "utils"
    /\ call.fn = "IsSensitiveHeader"
    /\ call.name = <<"t", "K", "e", "y">>
    /\ ret.table = "true"

----------------------------------------------------------------------------
(* C15 *)

\* C15: for every header name the keyword-table IsSensitiveHeader ends with a
\* boolean, and that boolean is the result of matching the lower-cased name
\* against the regular expression auth|key|secret|token|password; it does not
\* fail on names that end with a proper prefix of a keyword.
C15_TableEqualsRegex ==
    (mode = "utils" /\ call.fn = "IsSensitiveHeader") =>
        ret.table = (IF ret.regex THEN "true" ELSE "false")

----------------------------------------------------------------------------
(* C16 *)

----------------------------------------------------------------------------
(* C17 *)

\* C17: with an empty allow-list NewTelemetryHeaders returns a projection
\* whose keys are exactly the lower-cased names of the input headers that have
\* at least one value; every value of a sensitive header is masked and the
\* values of the other headers are unchanged.
C17_EmptyAllowListProjection ==
    (mode = "utils" /\ call.fn = "NewTelemetryHeaders" /\ Len(call.allowedHeaders) = 0) =>
        LET h == call.httpHeaders
            present == {k \in DOMAIN h : Len(h[k]) > 0}
        IN  /\ ~ret.panic
            /\ DOMAIN ret.hdr = {ToLower(k) : k \in present}
            /\ \A k \in present :
                  IF MatchString(sensitiveHeaderRegex, ToLower(k))
                  THEN /\ Len(ret.hdr[ToLower(k)]) > 0
                       /\ \A i \in 1..Len(ret.hdr[ToLower(k)]) :
                             ret.hdr[ToLower(k)][i] = MaskString
                  ELSE ret.hdr[ToLower(k)] = h[k]

----------------------------------------------------------------------------
(* C18 *)

\* C18: with a non-empty allow-list NewTelemetryHeaders returns a projection
\* whose keys are exactly the lower-cased allow-list names that the input
\* carries with a non-empty value (looked up case-insensitively); sensitive
\* names have their value masked, and no other header appears.
C18_AllowListProjection ==
    (mode = "utils" /\ call.fn = "NewTelemetryHeaders" /\ Len(call.allowedHeaders) > 0) =>
        LET h == call.httpHeaders
            a == call.allowedHeaders
            used == {i \in 1..Len(a) : HeaderGet(h, a[i]) # ""}
        IN  /\ ~ret.panic
            /\ DOMAIN ret.hdr = {ToLower(a[i]) : i \in used}
            /\ \A i \in used :
                  ret.hdr[ToLower(a[i])] =
                      IF MatchString(sensitiveHeaderRegex, ToLower(a[i]))
                      THEN <<MaskString>>
                      ELSE <<HeaderGet(h, a[i])>>

----------------------------------------------------------------------------
(* C19 *)

\* the trace-propagation names the specification lists
TracePropagationNames ==
    {<<"b","a","g","g","a","g","e">>, <<"t","r","a","c","e","p","a","r","e","n","t">>, <<"t","r","a","c","e","r","e","s","p","o","n","s","e">>, <<"t","r","a","c","e","s","t","a","t","e">>,
     <<"x","-","b","3","-","s","a","m","p","l","e","d">>, <<"x","-","b","3","-","s","p","a","n","i","d">>, <<"x","-","b","3","-","t","r","a","c","e","i","d">>,
     <<"x","-","b","3","-","p","a","r","e","n","t","s","p","a","n","i","d">>, <<"x","-","b","3","-","f","l","a","g","s">>, <<"b","3">>}

\* C19: SetSpanHeaderAttributes sets, with an empty allow-list, one attribute
\* "{prefix}.{lower-cased name}" for every header whose lower-cased name is not
\* one of baggage, traceparent, traceresponse, tracestate, x-b3-sampled,
\* x-b3-spanid, x-b3-traceid, x-b3-parentspanid, x-b3-flags, b3, and none for
\* those; with a non-empty allow-list it sets attributes exactly for the
\* headers whose lower-cased name is in the list. The attribute carries the
\* header's values.
C19_SpanHeaderAttributes ==
    (mode = "utils" /\ call.fn = "SetSpanHeaderAttributes") =>
        LET h == call.headers
            a == call.allowedHeaders
            chosen == IF Len(a) = 0
                      THEN {k \in DOMAIN h : ToLower(k) \notin TracePropagationNames}
                      ELSE {k \in DOMAIN h : \E i \in 1..Len(a) : a[i] = ToLower(k)}
        IN  /\ {at.key : at \in ret} = {call.prefix \o <<".">> \o ToLower(k) : k \in chosen}
            /\ \A k \in chosen :
                  [key |-> call.prefix \o <<".">> \o ToLower(k), values |-> h[k]] \in ret

C19_Witness ==
    /\ mode = "utils"
    /\ call.fn = "SetSpanHeaderAttributes"
    /\ Len(call.allowedHeaders) = 0
    /\ {B3Header, TraceparentHeader, ContentTypeHeader} \subseteq DOMAIN call.headers
    /\ \E at \in ret : at.key = call.prefix \o <<".">> \o ToLower(ContentTypeHeader)
    /\ \A at \in ret : at.key # call.prefix \o <<".">> \o ToLower(B3Header)

----------------------------------------------------------------------------
(* C20 *)

\* C20: when the configured request-header allow-list names a
\* trace-propagation header (traceparent) and the request carries it, the
\* request span gets the attribute http.request.header.traceparent.
C20_AllowedPropagationHeaderOnSpan ==
    ( /\ mode = "serve"
      /\ pc \notin {"start", "headers"}
      /\ Len(EventsOf("span_start")) = 1
      /\ SeqContains(tmOptions.AllowedRequestHeaders, ToLower(TraceparentHeader))
      /\ TraceparentHeader \in DOMAIN r.Header )
    => \E i \in 1..Len(events) :
          /\ events[i].ev = "span_attrs"
          /\ \E at \in events[i].attrs :
                at.key = RequestHeaderPrefix \o <<".">> \o ToLower(TraceparentHeader)

----------------------------------------------------------------------------
(* C21 *)

\* C21: the request identifier is never empty and follows a fixed
\* precedence: the value of the x-request-id header when it is present and
\* non-empty, else the trace ID of the request's tracing context when it has
\* one, else a freshly generated UUID.
C21_RequestIdPrecedence ==
    (mode = "utils" /\ call.fn = "getRequestID") =>
        LET k == <<"X","-","R","e","q","u","e","s","t","-","I","d">>
            h == call.r.Header
            fromHeader == IF k \in DOMAIN h /\ Len(h[k]) > 0 THEN h[k][1] ELSE ""
        IN  /\ ret # ""
            /\ fromHeader # "" => ret = fromHeader
            /\ (fromHeader = "" /\ call.r.spanContext.hasTraceID)
                  => ret = call.r.spanContext.traceID
            /\ (fromHeader = "" /\ ~call.r.spanContext.hasTraceID) => ret \in UUIDs

C21_Witness ==
    /\ mode = "utils"
    /\ call.fn = "getRequestID"
    /\ <<"X","-","R","e","q","u","e","s","t","-","I","d">> \in DOMAIN call.r.Header
    /\ call.r.Header[<<"X","-","R","e","q","u","e","s","t","-","I","d">>] = <<"", "second">>
    /\ call.r.spanContext.hasTraceID
    /\ ret = "0102030405060708090a0b0c0d0e0f10"

----------------------------------------------------------------------------
(* C22 *)

SchemePort(urlScheme) ==
    IF urlScheme = "http" THEN 80 ELSE IF urlScheme = "https" THEN 443 ELSE 0 - 1

HasChar(str, c) == \E i \in 1..Len(str) : str[i] = c

AllDigits(str) ==
    Len(str) > 0 /\ \A i \in 1..Len(str) : str[i] \in {"0","1","2","3","4","5","6","7","8","9"}

----------------------------------------------------------------------------
(* C23 *)

\* C23: for an input of the form host:port (a colon follows the host, and
\* follows the closing bracket of a bracketed host), every port SplitHostPort returns
\* without an error is in 0..65535, and a port text that is not an unsigned
\* 16-bit decimal number (negative, signed, above 65535, not numeric) gives an
\* error.
C23_PortIsUint16 ==
    ( /\ mode = "utils" /\ call.fn = "SplitHostPort"
      /\ HasChar(call.hostport, ":")
      /\ \A k \in 1..Len(call.hostport) :
            call.hostport[k] = "]" => HasChar(SubSeq(call.hostport, k, Len(call.hostport)), ":") )
    =>  LET hp == call.hostport
            i == CHOOSE k \in 1..Len(hp) :
                    hp[k] = ":" /\ \A j \in (k + 1)..Len(hp) : hp[j] # ":"
            ptxt == SubSeq(hp, i + 1, Len(hp))
        IN  /\ ret.err = "nil" => (ret.port >= 0 /\ ret.port <= 65535)
            /\ ~(AllDigits(ptxt) /\ DigitsValue(ptxt) <= 65535) => ret.err # "nil"

----------------------------------------------------------------------------
(* C24 *)

\* C24: a request is treated as a debug-path request (no span is started)
\* exactly when its path equals, ignoring letter case, one of the configured
\* debug paths: the defaults or a path passed to WithDebugPaths, in whatever
\* case it was passed.
C24_DebugPathIgnoresCase ==
    (mode = "serve" /\ pc # "start") =>
        ( Len(EventsOf("span_start")) = 0
          <=> \E i \in 1..Len(tmOptions.DebugPaths) :
                 LowerPath(tmOptions.DebugPaths[i]) = LowerPath(r.Path) )

----------------------------------------------------------------------------
(* C25 *)

\* C25: GetLogsExporter returns none when LogsExporter is empty, none when it
\* is "none", and otlp when it is "otlp".
C25_LogsExporterType ==
    (mode = "utils" /\ call.fn = "GetLogsExporter") =>
        /\ call.oc.LogsExporter = "" => ret = "none"
        /\ call.oc.LogsExporter = "none" => ret = "none"
        /\ call.oc.LogsExporter = "otlp" => ret = "otlp"

----------------------------------------------------------------------------
(* C26 *)

\* C26: once all the invocations served concurrently by one middleware
\* instance have exited, in any interleaving, the net change of the
\* active-requests gauge is zero for every attribute set: each attribute set
\* received as many Add(-1) as Add(+1).
C26_NetGaugeChangeZero ==
    (mode = "conc" /\ \A i \in DOMAIN invocations : invocations[i].exit # "running") =>
        \A i \in DOMAIN invocations :
            LET attrs == invocations[i].activeRequestsAttrSet
            IN  CopiesIn([attrs |-> attrs, delta |-> 1], ActiveRequestsMetric)
                = CopiesIn([attrs |-> attrs, delta |-> 0 - 1], ActiveRequestsMetric)

----------------------------------------------------------------------------
(* C27 *)

\* C27: no step between the active-requests increment and the deferral of
\* the recovery guard (request header projection, wrapping the writer, debug
\* body capture) makes ServeHTTP exit by panic with the gauge not decremented:
\* an exit by panic that precedes the handler call has its decrement.
C27_NoGaugeLeakBeforeGuard ==
    (exit = "panicked" /\ handler = "notcalled") =>
        Len(GaugeCalls(0 - 1)) = Len(GaugeCalls(1))

----------------------------------------------------------------------------
(* C28 *)

\* C28: the status code recorded by the finalization closure equals the
\* status code that went out to the client, also when the handler panicked
\* after it had written a final status or body through the wrapper.
C28_RecordedStatusIsClientStatus ==
    (Exited /\ handler = "panicked" /\ w.sent) =>
        \A i \in 1..Len(EventsOf("finalize")) :
            EventsOf("finalize")[i].code = w.status

----------------------------------------------------------------------------
(* C29 *)

\* C29: the header telemetry does not depend on sensitive header values: for
\* two header collections that differ only in the non-empty values of headers
\* whose names are sensitive, the header group of the log line and the
\* http.request.header.* / http.response.header.* span attributes are the
\* same, with and without an allow-list.
C29_TelemetryIgnoresSensitiveValues ==
    (/\ mode = "utils" /\ call.fn = "HeaderTelemetry"
     /\ \A k \in DOMAIN call.first :
            call.first[k] # call.second[k] =>
                /\ IsSensitiveHeaderRegex(k)
                /\ Len(call.first[k]) > 0
                /\ \A j \in 1..Len(call.first[k]) : call.first[k][j] # ""
                /\ \A j \in 1..Len(call.second[k]) : call.second[k][j] # "")
    => ret.first = ret.second

\* an allow-listed Authorization header whose value differs between the two
\* collections, projected and put on the span as the mask in both
C29_Witness ==
    /\ mode = "utils" /\ call.fn = "HeaderTelemetry"
    /\ AuthorizationHeader \in DOMAIN call.first
    /\ call.first[AuthorizationHeader] = <<"Bearer abcdefghijk">>
    /\ call.second[AuthorizationHeader] = <<"changed", "again">>
    /\ \A k \in DOMAIN call.first :
           k # AuthorizationHeader => call.first[k] = call.second[k]
    /\ call.allowedHeaders # <<>>
    /\ ~ret.first.panic
    /\ ret.first = ret.second
    /\ AuthorizationHeader \in DOMAIN ret.first.log
    /\ ret.first.log[AuthorizationHeader] = <<MaskString>>
    /\ \E a \in ret.second.span :
           /\ a.key = AttrKey(call.prefix, ToLower(AuthorizationHeader))
           /\ a.values = <<MaskString>>

----------------------------------------------------------------------------
(* C30 *)

\* C30: setupOTelMetricsProvider, when it gets past the exporter type, has
\* unregistered the default Go and process collectors exactly when
\* DisableGoMetrics is set to true; unset or false leaves them registered.
C30_UnregisterIffDisabled ==
    (mode = "utils" /\ call.fn = "setupOTelMetricsProvider" /\ ret.err = "nil") =>
        (ret.unregistered <=> call.config.DisableGoMetrics = "true")

====
